---------------------------- MODULE Spec2Model ----------------------------
(***************************************************************************)
(* Model of src/arxiv_collector.py: the ArxivCollector ingestion engine.   *)
(*                                                                         *)
(* The persisted state is the SQLite database (tables keywords, papers,    *)
(* paper_keywords) and the fact that the database file exists.  One        *)
(* process at a time runs main(): it constructs the collector, calls       *)
(* run(), and exits; a later process may run on the same store.  The       *)
(* position of the process in main()/run()/process_keyword() is pc.  The   *)
(* upstream API and the delivery of termination signals are the            *)
(* environment.                                                            *)
(***************************************************************************)
EXTENDS Integers, Sequences, FiniteSets, Bags, TLC

(***************************************************************************)
(* Program constants.                                                      *)
(***************************************************************************)
batch_size == 500

max_results_per_keyword == 2000

(***************************************************************************)
(* Bounds of the model.                                                    *)
(***************************************************************************)
\* number of processes (invocations of main) in one behaviour
MaxRuns == 2

\* number of page requests the upstream receives in one behaviour
MaxRequests == 4

\* faults of the store in one behaviour
MaxFaults == 1

\* the process in which the faults of the store occur
FaultRun == 1

NULL == "NULL"

(***************************************************************************)
(* Strings are sequences of one-character strings.                         *)
(***************************************************************************)
Range(s) == {s[i] : i \in 1..Len(s)}

SetMax(S) == CHOOSE x \in S : \A y \in S : y <= x

SetMin(S) == CHOOSE x \in S : \A y \in S : x <= y

Min2(a, b) == IF a <= b THEN a ELSE b

\* s.split(c)[-1]
SplitLast(s, c) ==
    LET I == {i \in 1..Len(s) : s[i] = c}
    IN  IF I = {} THEN s ELSE SubSeq(s, SetMax(I) + 1, Len(s))

\* s.split(c)[0]
SplitFirst(s, c) ==
    LET I == {i \in 1..Len(s) : s[i] = c}
    IN  IF I = {} THEN s ELSE SubSeq(s, 1, SetMin(I) - 1)

Whitespace == {" ", "\n", "\t"}

RECURSIVE LStrip(_)
LStrip(s) ==
    IF s # <<>> /\ Head(s) \in Whitespace THEN LStrip(Tail(s)) ELSE s

RECURSIVE RStrip(_)
RStrip(s) ==
    IF s # <<>> /\ s[Len(s)] \in Whitespace
    THEN RStrip(SubSeq(s, 1, Len(s) - 1))
    ELSE s

\* str.strip()
Strip(s) == RStrip(LStrip(s))

(***************************************************************************)
(* Inputs.                                                                 *)
(***************************************************************************)
\* The keywords file as load_keywords finds it: whether open() succeeds,
\* and its lines as read by `for line in f`.
MISSING == [exists |-> FALSE, lines |-> <<>>]

\* load_keywords has not been called in this process
NotRead == [exists |-> FALSE, lines |-> << <<"?">> >>]

FileA == << <<"a", "\n">> >>

FileAB == << <<"a", "\n">>, <<"\n">>, <<" ", "b", " ", "\n">>, <<"a">> >>

Files == {[exists |-> TRUE, lines |-> l] : l \in {FileA, FileAB}}

\* entry.id of the entries the upstream can return; the other fields of an
\* entry (title, authors, ...) are determined by its entry.id, so that two
\* versions of a paper are two entries with different field values.
E1v1 == <<"u", "/", "1", "v", "1">>

E1v2 == <<"u", "/", "1", "v", "2">>

Ec2 == <<"u", "/", "c", "/", "2", "v", "1">>

Em2 == <<"u", "/", "m", "/", "2", "v", "1">>

\* len(feed.entries) of an upstream response
PageLens == {0, 120, 500}

\* opensearch_totalresults of an upstream response
Totals == {1120, 5000}

\* str(e) of the exceptions query_arxiv can raise
Errors == {"timed out"}

\* the entries a page begins with
Patterns == {<<E1v1>>, <<E1v2>>, <<Ec2, Em2>>}

\* An upstream response: n entries, which are the entries of pat followed by
\* copies of the last entry of pat up to the length n; and the reported total.
Feeds ==
    {[n |-> 0, pat |-> <<>>, total |-> t] : t \in Totals}
    \cup {[n |-> n, pat |-> p, total |-> t] :
            n \in PageLens \ {0}, p \in Patterns, t \in Totals}

\* feed.entries[i - 1]
Entry(feed, i) == feed.pat[Min2(i, Len(feed.pat))]

(***************************************************************************)
(* query_arxiv: the parsing of one entry and of a feed.                    *)
(***************************************************************************)
ArxivIdOf(entry_id) ==
    LET last == SplitLast(entry_id, "/")
    IN  IF "v" \in Range(last) THEN SplitFirst(last, "v") ELSE last

Paper(entry_id) == [arxiv_id |-> ArxivIdOf(entry_id), fields |-> entry_id]

\* papers, as returned by query_arxiv: one paper per entry, in order.  The
\* list is kept run-length encoded: <<paper, count>> stands for count
\* successive copies of paper.
ParsePapers(feed) ==
    [k \in 1..Min2(feed.n, Len(feed.pat)) |->
        [paper |-> Paper(Entry(feed, k)),
         count |-> IF k < Len(feed.pat) THEN 1 ELSE feed.n - k + 1]]

\* len(papers)
RECURSIVE NumPapers(_)
NumPapers(ps) ==
    IF ps = <<>> THEN 0 ELSE Head(ps).count + NumPapers(Tail(ps))

(***************************************************************************)
(* The store.  keywords is the table in id order (id = position); papers   *)
(* is the set of rows of the papers table; paper_keywords is the bag of    *)
(* rows <<paper_id, keyword_id>> of the link table.                        *)
(***************************************************************************)
\* a NULL timestamp is 0
NewKeywordRow(kw) ==
    [keyword |-> kw, total_results |-> 0, processed_results |-> 0,
     status |-> "pending", started_at |-> 0, completed_at |-> 0,
     error_message |-> NULL]

\* a bug: INSERT OR REPLACE INTO keywords (keyword) VALUES (?)
InsertOrReplaceKeyword(tbl, kw) ==
    Append(SelectSeq(tbl, LAMBDA row : row.keyword # kw), NewKeywordRow(kw))

\* INSERT OR IGNORE INTO keywords (keyword) VALUES (?)
InsertOrIgnoreKeyword(tbl, kw) ==
    IF \E i \in 1..Len(tbl) : tbl[i].keyword = kw
    THEN tbl
    ELSE Append(tbl, NewKeywordRow(kw))

\* keywords = [line.strip() for line in f if line.strip()]
ReadKeywords(file) ==
    SelectSeq([i \in 1..Len(file.lines) |-> Strip(file.lines[i])],
              LAMBDA l : l # <<>>)

RECURSIVE InsertKeywords(_, _)
InsertKeywords(tbl, kws) ==
    IF kws = <<>>
    THEN tbl
    ELSE InsertKeywords(InsertOrIgnoreKeyword(tbl, Head(kws)), Tail(kws))

load_keywords(tbl, file) == InsertKeywords(tbl, ReadKeywords(file))

\* a bug: ORDER BY id DESC
GetPendingDescending(tbl) ==
    LET up == SelectSeq([i \in 1..Len(tbl) |-> i],
                        LAMBDA i : tbl[i].status \in {"pending", "failed"})
    IN  [k \in 1..Len(up) |-> up[Len(up) + 1 - k]]

\* a bug: WHERE status IN ('pending', 'failed', 'processing')
GetUnfinished(tbl) ==
    SelectSeq([i \in 1..Len(tbl) |-> i],
              LAMBDA i : tbl[i].status \in {"pending", "failed", "processing"})

\* a bug: WHERE status != 'processing'
GetNotProcessing(tbl) ==
    SelectSeq([i \in 1..Len(tbl) |-> i],
              LAMBDA i : tbl[i].status # "processing")

\* SELECT id, keyword FROM keywords WHERE status IN ('pending', 'failed')
\* ORDER BY id
get_pending_keywords(tbl) ==
    SelectSeq([i \in 1..Len(tbl) |-> i],
              LAMBDA i : tbl[i].status \in {"pending", "failed"})

\* a bug: a new attempt clears the message of the last failure
SetProcessingClearsError(row, now) ==
    [row EXCEPT !.status = "processing", !.started_at = now,
                !.error_message = NULL]

\* a bug: the status is not written when an attempt begins
SetProcessingOnlyTimestamp(row, now) == [row EXCEPT !.started_at = now]

\* UPDATE keywords SET status = 'processing', started_at = CURRENT_TIMESTAMP
SetProcessing(row, now) ==
    [row EXCEPT !.status = "processing", !.started_at = now]

\* a bug: the two parameters of the statement are bound in the wrong order
SetProgressSwapped(row, total, processed) ==
    [row EXCEPT !.total_results = processed, !.processed_results = total]

\* UPDATE keywords SET total_results = ?, processed_results = ?
SetProgress(row, total, processed) ==
    [row EXCEPT !.total_results = total, !.processed_results = processed]

\* a bug: the final status is not written
SetStatusOnlyTimestamp(row, status, now) ==
    [row EXCEPT !.completed_at = now]

\* UPDATE keywords SET status = ?, completed_at = CURRENT_TIMESTAMP
SetStatus(row, status, now) ==
    [row EXCEPT !.status = status, !.completed_at = now]

\* a bug: the failure resets the progress
SetFailedResetsProgress(row, error_msg, now) ==
    [row EXCEPT !.status = "failed", !.error_message = error_msg,
                !.completed_at = now, !.processed_results = 0]

\* a bug: the error message is not written
SetFailedNoMessage(row, error_msg, now) ==
    [row EXCEPT !.status = "failed", !.completed_at = now]

\* UPDATE keywords SET status = 'failed', error_message = ?,
\* completed_at = CURRENT_TIMESTAMP
SetFailed(row, error_msg, now) ==
    [row EXCEPT !.status = "failed", !.error_message = error_msg,
                !.completed_at = now]

\* a bug: INSERT OR REPLACE INTO papers
InsertOrReplacePaper(tbl, paper) ==
    {r \in tbl : r.arxiv_id # paper.arxiv_id} \cup {paper}

\* INSERT OR IGNORE INTO papers (...) VALUES (...)
InsertOrIgnorePaper(tbl, paper) ==
    IF \E r \in tbl : r.arxiv_id = paper.arxiv_id
    THEN tbl
    ELSE tbl \cup {paper}

\* INSERT OR IGNORE INTO paper_keywords (paper_id, keyword_id) VALUES (?, ?)
InsertOrIgnoreLink(tbl, row) ==
    IF BagIn(row, tbl) THEN tbl ELSE tbl (+) SetToBag({row})

\* a bug: every paper of the page is counted as new
RowcountAlwaysOne(tbl, row) == 1

\* cursor.rowcount after the INSERT OR IGNORE INTO paper_keywords
LinkRowcount(tbl, row) == IF BagIn(row, tbl) THEN 0 ELSE 1

\* the body of the for loop of store_papers, for one paper
StoreOne(st, paper, kid) ==
    LET row == <<paper.arxiv_id, kid>>
    IN  [papers |-> InsertOrIgnorePaper(st.papers, paper),
         paper_keywords |-> InsertOrIgnoreLink(st.paper_keywords, row),
         stored_count |->
            IF LinkRowcount(st.paper_keywords, row) > 0
            THEN st.stored_count + 1
            ELSE st.stored_count]

\* the body of the loop, for count successive copies of paper: once the
\* body leaves the state as it is, the further copies leave it so too;
\* otherwise the remaining copies are handled in two halves, in order
RECURSIVE StoreCopies(_, _, _, _)
StoreCopies(st, paper, count, kid) ==
    IF count = 0
    THEN st
    ELSE LET nx == StoreOne(st, paper, kid)
         IN  IF nx = st \/ count = 1
             THEN nx
             ELSE LET half == (count - 1) \div 2
                      mid == StoreCopies(nx, paper, half, kid)
                  IN  StoreCopies(mid, paper, count - 1 - half, kid)

\* `for paper in papers`
RECURSIVE StoreLoop(_, _, _)
StoreLoop(ps, kid, st) ==
    IF ps = <<>>
    THEN st
    ELSE StoreLoop(Tail(ps), kid,
                   StoreCopies(st, Head(ps).paper, Head(ps).count, kid))

\* store_papers(papers, keyword_id) on the tables P and L: the tables it
\* commits and the count it returns
store_papers(ps, kid, P, L) ==
    StoreLoop(ps, kid,
              [papers |-> P, paper_keywords |-> L, stored_count |-> 0])

\* papers[:k] and papers[k:] of a run-length encoded list
RECURSIVE TakePapers(_, _)
TakePapers(ps, k) ==
    IF k = 0 \/ ps = <<>>
    THEN <<>>
    ELSE IF Head(ps).count <= k
         THEN <<Head(ps)>> \o TakePapers(Tail(ps), k - Head(ps).count)
         ELSE <<[Head(ps) EXCEPT !.count = k]>>

RECURSIVE DropPapers(_, _)
DropPapers(ps, k) ==
    IF k = 0 \/ ps = <<>>
    THEN ps
    ELSE IF Head(ps).count <= k
         THEN DropPapers(Tail(ps), k - Head(ps).count)
         ELSE <<[Head(ps) EXCEPT !.count = @ - k]>> \o Tail(ps)

\* the statements of store_papers that can raise sqlite3.Error for a record
Statements == {"insert", "link"}

\* the body of the for loop for a paper one of whose statements raises
\* sqlite3.Error: the statements before it have acted, the statement and
\* those after it have not, and the except clause of line 234 logs
StoreOneRaising(st, paper, stmt) ==
    IF stmt = "insert"
    THEN st
    ELSE [st EXCEPT !.papers = InsertOrIgnorePaper(@, paper)]

\* a bug: the exception ends the loop
RestOfPageSkipped(ps, kid, st) == st

\* the loop goes on with the papers after the one that raised
RestOfPage(ps, kid, st) == StoreLoop(ps, kid, st)

\* store_papers(papers, keyword_id) when the statement stmt raises
\* sqlite3.Error for papers[at - 1]
store_papers_raising(ps, kid, P, L, at, stmt) ==
    LET st0 == [papers |-> P, paper_keywords |-> L, stored_count |-> 0]
        st1 == StoreLoop(TakePapers(ps, at - 1), kid, st0)
        st2 == StoreOneRaising(st1, Head(DropPapers(ps, at - 1)).paper, stmt)
    IN  RestOfPage(DropPapers(ps, at), kid, st2)

(***************************************************************************)
(* State.                                                                  *)
(***************************************************************************)
VARIABLES
    \* the store
    db_exists,           \* Path(db_path).exists()
    keywords,            \* table keywords, in id order
    papers,              \* table papers
    paper_keywords,      \* table paper_keywords
    \* the process
    pc,                  \* position of the process; "off": no process
    runNo,               \* number of processes started so far
    resume,              \* not args.no_resume
    keywords_file,       \* args.keywords_file as load_keywords found it
    file_missing,        \* no file at args.keywords_file during run()
    shutdown_requested,  \* self.shutdown_requested
    pending_keywords,    \* run: ids of the startup list
    idx,                 \* run: position of the for loop in pending_keywords
    keyword_id,          \* process_keyword: its argument (0: none yet)
    start,               \* process_keyword: start
    total_processed,     \* process_keyword: total_processed
    total_results,       \* process_keyword: total_results
    n_papers,            \* process_keyword: len(papers)
    stored_count,        \* process_keyword: stored_count
    error,               \* process_keyword: str(e) of the exception caught
    exit_code,           \* the value main() returned (-1: none yet)
    \* history of the behaviour, read by the properties only
    first_seen,          \* per arxiv_id, the first paper handed to the store
    all_linked,          \* the last stored page held only papers already
                         \* linked to its keyword
    first_run,           \* the database did not exist when this process began
    startup,             \* table keywords when run() read its startup list
    requested,           \* ids of the keywords requested upstream in this run
    started,             \* ids marked processing in this run, in order
    nreq,                \* page requests issued in this attempt
    batches,             \* store_papers calls of this attempt
    log,                 \* the pages returned in this attempt
    slept,               \* time.sleep calls of this attempt
    sig,                 \* where the process was when the flag was first set
                         \* (full: the last page of the attempt was a stored
                         \* full page)
    upstream_requests,   \* page requests the upstream has received
    unslept,             \* page requests of this run since its last
                         \* time.sleep (or since its start)
    \* faults of the store
    faults,              \* statements, connects and commits that raised
    store_failed,        \* history: a connect or commit of this run raised
    record_error,        \* history: the last page on which a statement
                         \* raised for a record
    \* explore_subtopics_recursive (filter_ai_subtopics.py)
    explore_pc,          \* "idle": not called; "while": in the loop;
                         \* "returned"; "raised": left by an exception
    graph,               \* graph: topic -> list of children
    starting_topic,      \* starting_topic
    max_depth,           \* max_depth
    queue,               \* queue: (topic_id, current_depth, parent_id)
    visited,             \* visited
    depth_stats,         \* depth_stats, by depth
    all_subtopics,       \* all_subtopics
    exploration_tree,    \* exploration_tree, by key
    counted              \* history: the depths at which each topic was
                         \* counted, in order

store_vars == <<db_exists, keywords, papers, paper_keywords>>

run_vars == <<runNo, resume, keywords_file, file_missing, pending_keywords,
              idx, exit_code>>

kw_vars == <<keyword_id, start, total_processed, total_results, n_papers,
             stored_count, error>>

hist_vars == <<first_seen, all_linked, first_run, startup, requested,
               started, nreq, batches, log, slept, sig, upstream_requests,
               unslept>>

fault_vars == <<faults, store_failed, record_error>>

explore_vars == <<explore_pc, graph, starting_topic, max_depth, queue,
                  visited, depth_stats, all_subtopics, exploration_tree,
                  counted>>

collector_vars == <<store_vars, pc, shutdown_requested, run_vars, kw_vars,
                    hist_vars, fault_vars>>

vars == <<collector_vars, explore_vars>>

\* no statement has raised for a record
NoRecordError == [kid |-> 0, id |-> <<>>, stmt |-> "none", rest |-> {},
                  n |-> 0, batch |-> 0]

\* the flag has not been set in this process
NoSig == [pc |-> "none", keyword_id |-> 0, processed |-> 0, nreq |-> 0,
          full |-> FALSE, sent |-> 0, started |-> 0]

\* CURRENT_TIMESTAMP: time is read at the resolution of one process run
CURRENT_TIMESTAMP == runNo

\* the collector before its first process
InitCollector ==
    /\ db_exists = FALSE
    /\ keywords = <<>>
    /\ papers = {}
    /\ paper_keywords = EmptyBag
    /\ pc = "off"
    /\ runNo = 0
    /\ resume = TRUE
    /\ keywords_file = NotRead
    /\ file_missing = FALSE
    /\ shutdown_requested = FALSE
    /\ pending_keywords = <<>>
    /\ idx = 1
    /\ keyword_id = 0
    /\ start = 0
    /\ total_processed = 0
    /\ total_results = 0
    /\ n_papers = 0
    /\ stored_count = 0
    /\ error = NULL
    /\ exit_code = -1
    /\ first_seen = {}
    /\ all_linked = FALSE
    /\ first_run = FALSE
    /\ startup = <<>>
    /\ requested = {}
    /\ started = <<>>
    /\ nreq = 0
    /\ batches = 0
    /\ log = <<>>
    /\ slept = 0
    /\ sig = NoSig
    /\ upstream_requests = 0
    /\ unslept = 0
    /\ faults = 0
    /\ store_failed = FALSE
    /\ record_error = NoRecordError

(***************************************************************************)
(* Inputs of explore_subtopics_recursive.                                  *)
(***************************************************************************)
\* the longest list of children of a topic
MaxChildren == 2

\* the largest max_depth
MaxDepth == 2

\* topic ids; "root" is also the key of the root node in exploration_tree
Topics == {"root", "a", "b"}

\* None, the parent_id of the starting topic
None == "None"

\* the lists of children: any order, repetitions allowed
ChildLists == UNION {[1..n -> Topics] : n \in 0..MaxChildren}

\* graph.get(topic, []) for every topic: cycles and shared children allowed
Graphs == [Topics -> ChildLists]

\* defaultdict(list) without keys; an entry is a list of nodes or, for the
\* key "root", the dict of the root node (is_dict)
EmptyTree == [k \in Topics |-> [is_dict |-> FALSE, items |-> <<>>]]

\* defaultdict(int) without keys
NoStats == [d \in 0..MaxDepth |-> 0]

\* the function has not been called
NotExploring ==
    /\ explore_pc = "idle"
    /\ graph = [t \in Topics |-> <<>>]
    /\ starting_topic = "root"
    /\ max_depth = 0
    /\ queue = <<>>
    /\ visited = {}
    /\ depth_stats = NoStats
    /\ all_subtopics = {}
    /\ exploration_tree = EmptyTree
    /\ counted = [t \in Topics |-> <<>>]

Init == InitCollector /\ NotExploring

(***************************************************************************)
(* main() up to line 48 of __init__: the arguments are parsed; __init__     *)
(* creates the database file and the tables if they do not exist and       *)
(* installs the signal handlers.  The flag is not assigned yet; a process  *)
(* starts only while the store has shown no fault (see FaultMayOccur).     *)
(***************************************************************************)
Construct ==
    /\ pc = "off"
    /\ runNo < MaxRuns
    /\ faults = 0
    /\ runNo' = runNo + 1
    /\ resume' \in BOOLEAN
    /\ keywords_file' = NotRead
    /\ file_missing' = FALSE
    /\ db_exists' = TRUE
    /\ shutdown_requested' = FALSE
    /\ pc' = "init"
    /\ exit_code' = -1
    /\ pending_keywords' = <<>>
    /\ idx' = 1
    /\ keyword_id' = 0
    /\ start' = 0
    /\ total_processed' = 0
    /\ total_results' = 0
    /\ n_papers' = 0
    /\ stored_count' = 0
    /\ error' = NULL
    /\ first_run' = ~db_exists
    /\ startup' = <<>>
    /\ requested' = {}
    /\ started' = <<>>
    /\ nreq' = 0
    /\ batches' = 0
    /\ log' = <<>>
    /\ slept' = 0
    /\ sig' = NoSig
    /\ all_linked' = FALSE
    /\ unslept' = 0
    /\ UNCHANGED <<keywords, papers, paper_keywords, first_seen,
                   upstream_requests>>
    /\ store_failed' = FALSE
    /\ UNCHANGED <<faults, record_error>>
    /\ UNCHANGED explore_vars

\* __init__ line 49, after the handlers have been installed (lines 47-48)
ClearFlag ==
    /\ pc = "init"
    /\ shutdown_requested' = FALSE
    /\ sig' = NoSig
    /\ pc' = "run"
    /\ UNCHANGED <<store_vars, run_vars, kw_vars, first_seen, all_linked,
                   first_run, startup, requested, started, nreq, batches,
                   log, slept, upstream_requests, unslept, fault_vars>>
    /\ UNCHANGED explore_vars

\* signal_handler: a signal is delivered once the handlers are installed
Signal ==
    /\ pc # "off"
    /\ shutdown_requested' = TRUE
    /\ sig' = IF shutdown_requested
              THEN sig
              ELSE [pc |-> pc, keyword_id |-> keyword_id,
                    processed |-> total_processed, nreq |-> nreq,
                    full |-> batches > 0 /\ n_papers >= batch_size,
                    sent |-> upstream_requests, started |-> Len(started)]
    /\ UNCHANGED <<store_vars, pc, run_vars, kw_vars, first_seen, all_linked,
                   first_run, startup, requested, started, nreq, batches,
                   log, slept, upstream_requests, unslept>>
    /\ UNCHANGED fault_vars
    /\ UNCHANGED explore_vars

(***************************************************************************)
(* run(), lines 393-411: the keywords are loaded unless this is a resumed  *)
(* run on an existing database; the startup list is read.  An exception    *)
(* of load_keywords escapes run() and main() returns 1.                    *)
(***************************************************************************)
RunLoadFails ==
    /\ pc = "run"
    /\ ~resume \/ ~db_exists
    /\ keywords_file' = MISSING
    /\ file_missing' = TRUE
    /\ pc' = "off"
    /\ exit_code' = 1
    /\ UNCHANGED <<store_vars, shutdown_requested, runNo, resume,
                   pending_keywords, idx, kw_vars, hist_vars>>
    /\ UNCHANGED fault_vars
    /\ UNCHANGED explore_vars

RunLoad ==
    /\ pc = "run"
    /\ IF ~resume \/ ~db_exists
       THEN /\ keywords_file' \in Files
            /\ file_missing' = FALSE
            /\ keywords' = load_keywords(keywords, keywords_file')
       ELSE /\ keywords_file' = keywords_file
            /\ file_missing' \in BOOLEAN
            /\ keywords' = keywords
    /\ pending_keywords' = get_pending_keywords(keywords')
    /\ startup' = keywords'
    /\ idx' = 1
    /\ IF pending_keywords' = <<>>
       THEN pc' = "off" /\ exit_code' = 0
       ELSE pc' = "for" /\ exit_code' = exit_code
    /\ UNCHANGED <<db_exists, papers, paper_keywords, shutdown_requested,
                   runNo, resume, kw_vars, first_seen, all_linked, first_run,
                   requested, started, nreq, batches, log, slept, sig,
                   upstream_requests, unslept>>
    /\ UNCHANGED fault_vars
    /\ UNCHANGED explore_vars

(***************************************************************************)
(* run(), lines 413-415 and 440-443: the head of the for loop.             *)
(***************************************************************************)
ForExit ==
    /\ pc = "for"
    /\ idx > Len(pending_keywords) \/ shutdown_requested
    /\ pc' = "off"
    /\ exit_code' = 0
    /\ UNCHANGED <<store_vars, shutdown_requested, runNo, resume,
                   keywords_file, file_missing, pending_keywords, idx,
                   kw_vars, hist_vars>>
    /\ UNCHANGED fault_vars
    /\ UNCHANGED explore_vars

ForNext ==
    /\ pc = "for"
    /\ idx <= Len(pending_keywords)
    /\ ~shutdown_requested
    /\ keyword_id' = pending_keywords[idx]
    /\ pc' = "process_keyword"
    /\ UNCHANGED <<store_vars, shutdown_requested, run_vars, start,
                   total_processed, total_results, n_papers, stored_count,
                   error, hist_vars>>
    /\ UNCHANGED fault_vars
    /\ UNCHANGED explore_vars

(***************************************************************************)
(* process_keyword.                                                        *)
(***************************************************************************)
\* a bug: the attempt resumes at the stored progress
StartAtProgress == keywords[keyword_id].processed_results

\* line 258: start = 0
StartAtZero == 0

\* lines 243-258
MarkProcessing ==
    /\ pc = "process_keyword"
    /\ keywords' = [keywords EXCEPT
                      ![keyword_id] = SetProcessing(@, CURRENT_TIMESTAMP)]
    /\ start' = StartAtZero
    /\ total_processed' = 0
    /\ total_results' = 0
    /\ n_papers' = 0
    /\ stored_count' = 0
    /\ error' = NULL
    /\ started' = Append(started, keyword_id)
    /\ nreq' = 0
    /\ batches' = 0
    /\ log' = <<>>
    /\ slept' = 0
    /\ pc' = "while"
    /\ UNCHANGED <<db_exists, papers, paper_keywords, shutdown_requested,
                   run_vars, keyword_id, first_seen, all_linked, first_run,
                   startup, requested, sig, upstream_requests, unslept>>
    /\ UNCHANGED fault_vars
    /\ UNCHANGED explore_vars

\* a bug: the ceiling itself is still an offset to request
LoopConditionInclusive == start <= max_results_per_keyword

\* line 261: the condition of the while loop
LoopCondition == start < max_results_per_keyword

\* a bug: the loop does not look at the flag
BreakNever == FALSE

\* line 262: the checkpoint of the page loop
BreakRequested == shutdown_requested

\* lines 261-263: the loop ends at the ceiling or when the flag is set
WhileHead ==
    /\ pc = "while"
    /\ pc' = IF LoopCondition /\ ~BreakRequested
             THEN "query"
             ELSE "finish"
    /\ UNCHANGED <<store_vars, shutdown_requested, run_vars, kw_vars,
                   hist_vars>>
    /\ UNCHANGED fault_vars
    /\ UNCHANGED explore_vars

\* lines 266-268 and 154-158: the request is sent
SendRequest ==
    /\ pc = "query"
    /\ upstream_requests < MaxRequests
    /\ upstream_requests' = upstream_requests + 1
    /\ nreq' = nreq + 1
    /\ requested' = requested \cup {keyword_id}
    /\ unslept' = unslept + 1
    /\ pc' = "urlopen"
    /\ UNCHANGED <<store_vars, shutdown_requested, run_vars, kw_vars,
                   first_seen, all_linked, first_run, startup, started,
                   batches, log, slept, sig>>
    /\ UNCHANGED fault_vars
    /\ UNCHANGED explore_vars

\* the max_results parameter of the request: line 267 and build_query_url
RequestedMax == Min2(Min2(batch_size, max_results_per_keyword - start),
                     batch_size)

\* history: the papers of ps that are the first handed to the store with
\* their arxiv_id
FirstSeen(ps, seen) ==
    LET ids == {ps[i].paper.arxiv_id : i \in 1..Len(ps)}
        new == {id \in ids : \A r \in seen : r.arxiv_id # id}
        FirstOf(id) == SetMin({i \in 1..Len(ps) : ps[i].paper.arxiv_id = id})
    IN  seen \cup {ps[FirstOf(id)].paper : id \in new}

\* lines 159-198 and 270-277: query_arxiv returns a page and store_papers
\* commits it
QueryAndStore ==
    /\ pc = "urlopen"
    /\ \E f \in Feeds :
         LET ps == ParsePapers(f)
             st == store_papers(ps, keyword_id, papers, paper_keywords)
         IN  /\ total_results' = IF start = 0
                                 THEN Min2(f.total, max_results_per_keyword)
                                 ELSE total_results
             /\ papers' = st.papers
             /\ paper_keywords' = st.paper_keywords
             /\ stored_count' = st.stored_count
             /\ n_papers' = NumPapers(ps)
             /\ total_processed' = total_processed + NumPapers(ps)
             /\ log' = Append(log, [start |-> start, max |-> RequestedMax,
                                    n |-> f.n])
             /\ first_seen' = FirstSeen(ps, first_seen)
             /\ all_linked' = \A i \in 1..Len(ps) :
                                 BagIn(<<ps[i].paper.arxiv_id, keyword_id>>,
                                       paper_keywords)
    /\ batches' = batches + 1
    /\ pc' = "progress"
    /\ UNCHANGED <<db_exists, keywords, shutdown_requested, run_vars,
                   keyword_id, start, error, first_run, startup, requested,
                   started, nreq, slept, sig, upstream_requests, unslept>>
    /\ UNCHANGED fault_vars
    /\ UNCHANGED explore_vars

\* lines 158-163 and 200-202: query_arxiv raises
QueryRaises ==
    /\ pc = "urlopen"
    /\ error' \in Errors
    /\ pc' = "except"
    /\ UNCHANGED <<store_vars, shutdown_requested, run_vars, keyword_id,
                   start, total_processed, total_results, n_papers,
                   stored_count, hist_vars>>
    /\ UNCHANGED fault_vars
    /\ UNCHANGED explore_vars

\* a bug: only an empty page ends the loop
EndOnEmptyPage == n_papers = 0

\* line 292: fewer results than requested
EndOfResults == n_papers < batch_size

\* lines 279-293: the counters are written; a short page ends the loop
UpdateProgress ==
    /\ pc = "progress"
    /\ keywords' = [keywords EXCEPT
                      ![keyword_id] =
                         SetProgress(@, total_results, total_processed)]
    /\ pc' = IF EndOfResults THEN "finish" ELSE "advance"
    /\ UNCHANGED <<db_exists, papers, paper_keywords, shutdown_requested,
                   run_vars, kw_vars, hist_vars>>
    /\ UNCHANGED fault_vars
    /\ UNCHANGED explore_vars

\* a bug: the offset is not advanced
NextStartSame == start

\* line 295: start += len(papers)
NextStart == start + n_papers

\* lines 295-300: the offset advances; the loop sleeps if more remain
Advance ==
    /\ pc = "advance"
    /\ start' = NextStart
    /\ IF start' < total_results /\ ~shutdown_requested
       THEN slept' = slept + 1 /\ unslept' = 0
       ELSE slept' = slept /\ unslept' = unslept
    /\ pc' = "while"
    /\ UNCHANGED <<store_vars, shutdown_requested, run_vars, keyword_id,
                   total_processed, total_results, n_papers, stored_count,
                   error, first_seen, all_linked, first_run, startup, requested,
                   started, nreq, batches, log, sig, upstream_requests>>
    /\ UNCHANGED fault_vars
    /\ UNCHANGED explore_vars

\* a bug: the status does not depend on the flag
FinalStatusCompleted == "completed"

\* the status written at lines 302-311
FinalStatus == IF shutdown_requested THEN "interrupted" ELSE "completed"

\* lines 302-322, and run() lines 419-434: back to the for loop
Finish ==
    /\ pc = "finish"
    /\ keywords' = [keywords EXCEPT
                      ![keyword_id] =
                         SetStatus(@, FinalStatus, CURRENT_TIMESTAMP)]
    /\ idx' = idx + 1
    /\ pc' = "for"
    /\ UNCHANGED <<db_exists, papers, paper_keywords, shutdown_requested,
                   runNo, resume, keywords_file, file_missing,
                   pending_keywords, exit_code,
                   kw_vars, hist_vars>>
    /\ UNCHANGED fault_vars
    /\ UNCHANGED explore_vars

\* lines 324-337: the query is marked failed and the exception re-raised;
\* run() lines 436-438 catches it and continues with the next keyword
Fail ==
    /\ pc = "except"
    /\ keywords' = [keywords EXCEPT
                      ![keyword_id] =
                         SetFailed(@, error, CURRENT_TIMESTAMP)]
    /\ idx' = idx + 1
    /\ pc' = "for"
    /\ UNCHANGED <<db_exists, papers, paper_keywords, shutdown_requested,
                   runNo, resume, keywords_file, file_missing,
                   pending_keywords, exit_code,
                   kw_vars, hist_vars>>
    /\ UNCHANGED fault_vars
    /\ UNCHANGED explore_vars

Next ==
    \/ Construct
    \/ ClearFlag
    \/ Signal
    \/ RunLoadFails
    \/ RunLoad
    \/ ForExit
    \/ ForNext
    \/ MarkProcessing
    \/ WhileHead
    \/ SendRequest
    \/ QueryAndStore
    \/ QueryRaises
    \/ UpdateProgress
    \/ Advance
    \/ Finish
    \/ Fail

Spec == Init /\ [][Next]_vars

(***************************************************************************)
(* Faults of the store.  A statement of store_papers raises sqlite3.Error  *)
(* for one record of a page; or sqlite3.connect (or the commit that ends   *)
(* the `with` block) raises where the program opens the database.          *)
(***************************************************************************)
\* faults occur in the process FaultRun, which is the last process of its
\* behaviour (see Construct)
FaultMayOccur == faults < MaxFaults /\ runNo = FaultRun

\* str(e) of the sqlite3.Error raised
DatabaseError == "database is locked"

\* the positions in a page of the record for which a statement raises
ErrorPositions == {1, 2}

\* the pages on which a statement raises: a paper followed by copies of
\* another paper, so that the record at position 1 is the only one of the
\* page with its arxiv_id and the record at position 2 is not
ErrorFeeds ==
    {[n |-> n, pat |-> <<E1v1, Ec2>>, total |-> t] :
        n \in PageLens \ {0}, t \in Totals}

\* the arxiv_ids of the papers of a run-length encoded list
IdsOf(ps) == {ps[i].paper.arxiv_id : i \in 1..Len(ps)}

\* lines 266-277 when a statement of store_papers raises for one record:
\* the except clause of line 234 logs, the loop goes on, the page is
\* committed, and process_keyword counts the page as usual
QueryAndStoreRecordError ==
    /\ pc = "urlopen"
    /\ FaultMayOccur
    /\ faults' = faults + 1
    /\ \E f \in ErrorFeeds, at \in ErrorPositions, stmt \in Statements :
         /\ at <= f.n
         /\ LET ps == ParsePapers(f)
                st == store_papers_raising(ps, keyword_id, papers,
                                           paper_keywords, at, stmt)
            IN  /\ total_results' = IF start = 0
                                    THEN Min2(f.total, max_results_per_keyword)
                                    ELSE total_results
                /\ papers' = st.papers
                /\ paper_keywords' = st.paper_keywords
                /\ stored_count' = st.stored_count
                /\ n_papers' = NumPapers(ps)
                /\ total_processed' = total_processed + NumPapers(ps)
                /\ log' = Append(log, [start |-> start, max |-> RequestedMax,
                                       n |-> f.n])
                /\ first_seen' = FirstSeen(ps, first_seen)
                /\ all_linked' = \A i \in 1..Len(ps) :
                                    BagIn(<<ps[i].paper.arxiv_id, keyword_id>>,
                                          paper_keywords)
                /\ record_error' =
                      [kid |-> keyword_id,
                       id |-> Head(DropPapers(ps, at - 1)).paper.arxiv_id,
                       stmt |-> stmt,
                       rest |-> IdsOf(TakePapers(ps, at - 1))
                                   \cup IdsOf(DropPapers(ps, at)),
                       n |-> f.n,
                       batch |-> batches + 1]
    /\ batches' = batches + 1
    /\ pc' = "progress"
    /\ UNCHANGED <<db_exists, keywords, shutdown_requested, run_vars,
                   keyword_id, start, error, first_run, startup, requested,
                   started, nreq, slept, sig, upstream_requests, unslept,
                   store_failed>>
    /\ UNCHANGED explore_vars


\* run() lines 397-402 when the connect of load_keywords (line 120) or of
\* get_pending_keywords (line 341) raises: the exception escapes run() and
\* main() returns 1
RunLoadDbError ==
    /\ pc = "run"
    /\ FaultMayOccur
    /\ faults' = faults + 1
    /\ store_failed' = TRUE
    /\ IF ~resume \/ ~db_exists
       THEN /\ keywords_file' \in Files
            /\ file_missing' = FALSE
            /\ keywords' \in {keywords,
                              load_keywords(keywords, keywords_file')}
       ELSE /\ keywords_file' = keywords_file
            /\ file_missing' \in BOOLEAN
            /\ keywords' = keywords
    /\ pc' = "off"
    /\ exit_code' = 1
    /\ UNCHANGED <<db_exists, papers, paper_keywords, shutdown_requested,
                   runNo, resume, pending_keywords, idx, kw_vars, hist_vars,
                   record_error>>
    /\ UNCHANGED explore_vars

\* process_keyword line 246 raises, outside its try: the exception reaches
\* run() lines 436-438, which logs and continues
MarkProcessingDbError ==
    /\ pc = "process_keyword"
    /\ FaultMayOccur
    /\ faults' = faults + 1
    /\ store_failed' = TRUE
    /\ idx' = idx + 1
    /\ pc' = "for"
    /\ UNCHANGED <<store_vars, shutdown_requested, runNo, resume,
                   keywords_file, file_missing, pending_keywords, exit_code,
                   kw_vars, hist_vars, record_error>>
    /\ UNCHANGED explore_vars

\* query_arxiv returns and the connect (line 208) or the commit (line 237)
\* of store_papers raises: nothing of the page is committed
StoreDbError ==
    /\ pc = "urlopen"
    /\ FaultMayOccur
    /\ faults' = faults + 1
    /\ store_failed' = TRUE
    /\ \E t \in Totals :
         total_results' = IF start = 0
                          THEN Min2(t, max_results_per_keyword)
                          ELSE total_results
    /\ error' = DatabaseError
    /\ pc' = "except"
    /\ UNCHANGED <<store_vars, shutdown_requested, run_vars, keyword_id,
                   start, total_processed, n_papers, stored_count, hist_vars,
                   record_error>>
    /\ UNCHANGED explore_vars

\* the connect of the progress update (line 280) raises
UpdateProgressDbError ==
    /\ pc = "progress"
    /\ FaultMayOccur
    /\ faults' = faults + 1
    /\ store_failed' = TRUE
    /\ error' = DatabaseError
    /\ pc' = "except"
    /\ UNCHANGED <<store_vars, shutdown_requested, run_vars, keyword_id,
                   start, total_processed, total_results, n_papers,
                   stored_count, hist_vars, record_error>>
    /\ UNCHANGED explore_vars

\* the connect of the final update (line 304) raises
FinishDbError ==
    /\ pc = "finish"
    /\ FaultMayOccur
    /\ faults' = faults + 1
    /\ store_failed' = TRUE
    /\ error' = DatabaseError
    /\ pc' = "except"
    /\ UNCHANGED <<store_vars, shutdown_requested, run_vars, keyword_id,
                   start, total_processed, total_results, n_papers,
                   stored_count, hist_vars, record_error>>
    /\ UNCHANGED explore_vars

\* the connect in the except clause (line 327) raises: the row is left as
\* it is and the new exception reaches run() lines 436-438
FailDbError ==
    /\ pc = "except"
    /\ FaultMayOccur
    /\ faults' = faults + 1
    /\ store_failed' = TRUE
    /\ idx' = idx + 1
    /\ pc' = "for"
    /\ UNCHANGED <<store_vars, shutdown_requested, runNo, resume,
                   keywords_file, file_missing, pending_keywords, exit_code,
                   kw_vars, hist_vars, record_error>>
    /\ UNCHANGED explore_vars

\* the connect of get_progress_summary (line 441) raises after the loop:
\* the exception escapes run() and main() returns 1
ForExitDbError ==
    /\ pc = "for"
    /\ idx > Len(pending_keywords) \/ shutdown_requested
    /\ FaultMayOccur
    /\ faults' = faults + 1
    /\ store_failed' = TRUE
    /\ pc' = "off"
    /\ exit_code' = 1
    /\ UNCHANGED <<store_vars, shutdown_requested, runNo, resume,
                   keywords_file, file_missing, pending_keywords, idx,
                   kw_vars, hist_vars, record_error>>
    /\ UNCHANGED explore_vars

NextFaults ==
    \/ Next
    \/ QueryAndStoreRecordError
    \/ RunLoadDbError
    \/ MarkProcessingDbError
    \/ StoreDbError
    \/ UpdateProgressDbError
    \/ FinishDbError
    \/ FailDbError
    \/ ForExitDbError

SpecFaults == Init /\ [][NextFaults]_vars

(***************************************************************************)
(* Abrupt termination: the process is killed (SIGKILL, power loss) between *)
(* two of its steps.  Nothing of the cooperative path runs; the store      *)
(* keeps what has been committed, an open transaction is rolled back.      *)
(***************************************************************************)
Kill ==
    /\ pc # "off"
    /\ pc' = "off"
    /\ UNCHANGED <<store_vars, shutdown_requested, run_vars, kw_vars,
                   hist_vars, fault_vars>>
    /\ UNCHANGED explore_vars

NextKill == Next \/ Kill

SpecKill == Init /\ [][NextKill]_vars

(***************************************************************************)
(* explore_subtopics_recursive(starting_topic, max_depth, graph,           *)
(* topic_names) of filter_ai_subtopics.py.  topic_names only supplies the  *)
(* printed names.                                                          *)
(***************************************************************************)
\* lines 72-79: the locals before the loop, for every input
InitExplore ==
    /\ InitCollector
    /\ explore_pc = "while"
    /\ graph \in Graphs
    /\ starting_topic \in Topics
    /\ max_depth \in 0..MaxDepth
    /\ queue = <<[topic |-> starting_topic, depth |-> 0, parent |-> None]>>
    /\ visited = {starting_topic}
    /\ depth_stats = NoStats
    /\ all_subtopics = {}
    /\ exploration_tree = EmptyTree
    /\ counted = [t \in Topics |-> <<>>]

\* line 95: `if parent_id:`
Truthy(parent_id) == parent_id # None /\ parent_id # ""

\* lines 119-122: the unvisited children are marked visited and appended
RECURSIVE AddChildren(_, _, _, _, _)
AddChildren(children, q, vis, depth, parent) ==
    IF children = <<>>
    THEN [queue |-> q, visited |-> vis]
    ELSE IF Head(children) \notin vis
         THEN AddChildren(Tail(children),
                          Append(q, [topic |-> Head(children),
                                     depth |-> depth, parent |-> parent]),
                          vis \cup {Head(children)}, depth, parent)
         ELSE AddChildren(Tail(children), q, vis, depth, parent)

\* lines 88-89: the topic is counted
Count(cur) ==
    /\ depth_stats' = [depth_stats EXCEPT ![cur.depth] = @ + 1]
    /\ all_subtopics' = all_subtopics \cup {cur.topic}
    /\ counted' = [counted EXCEPT ![cur.topic] = Append(@, cur.depth)]

\* line 96: exploration_tree[parent_id] is the dict of the root node, which
\* has no append
AppendRaises(cur) ==
    Truthy(cur.parent) /\ exploration_tree[cur.parent].is_dict

\* lines 82-122: one iteration of the loop
LoopBody ==
    /\ explore_pc = "while"
    /\ queue # <<>>
    /\ LET cur == Head(queue)
           node == [topic_id |-> cur.topic, depth |-> cur.depth]
       IN  IF cur.depth > max_depth
           THEN /\ queue' = Tail(queue)
                /\ UNCHANGED <<visited, depth_stats, all_subtopics,
                               exploration_tree, counted>>
           ELSE /\ ~AppendRaises(cur)
                /\ Count(cur)
                /\ exploration_tree' =
                      IF Truthy(cur.parent)
                      THEN [exploration_tree EXCEPT
                              ![cur.parent].items = Append(@, node)]
                      ELSE [exploration_tree EXCEPT
                              !["root"] = [is_dict |-> TRUE,
                                           items |-> <<node>>]]
                /\ IF cur.depth >= max_depth
                   THEN queue' = Tail(queue) /\ visited' = visited
                   ELSE LET r == AddChildren(graph[cur.topic], Tail(queue),
                                             visited, cur.depth + 1,
                                             cur.topic)
                        IN  queue' = r.queue /\ visited' = r.visited
    /\ UNCHANGED <<explore_pc, graph, starting_topic, max_depth>>
    /\ UNCHANGED collector_vars

\* lines 82-96: the iteration in which line 96 raises AttributeError, which
\* nothing catches
LoopBodyRaises ==
    /\ explore_pc = "while"
    /\ queue # <<>>
    /\ LET cur == Head(queue)
       IN  /\ cur.depth <= max_depth
           /\ AppendRaises(cur)
           /\ Count(cur)
    /\ queue' = Tail(queue)
    /\ explore_pc' = "raised"
    /\ UNCHANGED <<graph, starting_topic, max_depth, visited,
                   exploration_tree>>
    /\ UNCHANGED collector_vars

\* lines 81 and 124-132: the queue is empty and the results are returned
Return ==
    /\ explore_pc = "while"
    /\ queue = <<>>
    /\ explore_pc' = "returned"
    /\ UNCHANGED <<graph, starting_topic, max_depth, queue, visited,
                   depth_stats, all_subtopics, exploration_tree, counted>>
    /\ UNCHANGED collector_vars

NextExplore ==
    \/ LoopBody
    \/ LoopBodyRaises
    \/ Return

SpecExplore == InitExplore /\ [][NextExplore]_vars

(***************************************************************************)
(* Properties.                                                             *)
(***************************************************************************)
Last(q) == q[Len(q)]

\* C1: storing a record is idempotent and first-write-wins.  For every
\* identifier handed to the store, in whatever pages and runs and with
\* whatever field values, the papers table holds exactly one row, and the
\* row is the paper of the first insertion; the table holds no other row.
C1_FirstWriteWins ==
    /\ \A f \in first_seen :
          {r \in papers : r.arxiv_id = f.arxiv_id} = {f}
    /\ \A r \in papers : \E f \in first_seen : f.arxiv_id = r.arxiv_id

\* C1, witness: the identifier "2" has been delivered under two different
\* entries (Ec2, then copies of Em2, in every page that carries it), for
\* both keywords, in the second run.
C1_Witness ==
    /\ runNo = 2
    /\ Paper(Ec2) \in papers
    /\ Paper(Ec2).arxiv_id = Paper(Em2).arxiv_id
    /\ Paper(Ec2) # Paper(Em2)
    /\ BagIn(<<Paper(Ec2).arxiv_id, 1>>, paper_keywords)
    /\ BagIn(<<Paper(Ec2).arxiv_id, 2>>, paper_keywords)

\* C2: linking a record to a query is idempotent.  A (record, query) pair
\* is in the link table at most once, and store_papers on a page whose
\* papers are all linked to the keyword already returns 0.
C2_LinkIdempotent ==
    /\ \A row \in BagToSet(paper_keywords) :
          CopiesIn(row, paper_keywords) = 1
    /\ all_linked => stored_count = 0

\* C2, witness: a full page has just been stored whose papers were all
\* linked to the keyword before.
C2_Witness ==
    /\ pc = "progress"
    /\ all_linked
    /\ n_papers = batch_size
    /\ stored_count = 0

\* C3: a run starts processing only keywords that were pending or failed
\* when it read its startup list; a keyword that was completed then keeps
\* its whole row for the rest of the run, and is never requested upstream.
C3_CompletedUntouched ==
    /\ \A i \in 1..Len(startup) :
          startup[i].status = "completed" =>
             /\ keywords[i] = startup[i]
             /\ i \notin requested
    /\ \A j \in 1..Len(started) :
          startup[started[j]].status \in {"pending", "failed"}

\* C3, witness: the second run found a completed keyword at startup and
\* has requested a page for another keyword.
C3_Witness ==
    /\ runNo = 2
    /\ \E i \in 1..Len(startup) : startup[i].status = "completed"
    /\ requested # {}
    /\ pc = "progress"

\* C4: the records fetched in an attempt and the stored processed_results
\* never exceed max_results_per_keyword, and no page is requested at an
\* offset at or beyond it, whatever total the upstream reports (no page of
\* the model holds more than was requested).
C4_Ceiling ==
    /\ \A k \in 1..Len(log) : log[k].n <= log[k].max
    /\ total_processed <= max_results_per_keyword
    /\ \A i \in 1..Len(keywords) :
          keywords[i].processed_results <= max_results_per_keyword
    /\ \A k \in 1..Len(log) : log[k].start < max_results_per_keyword
    /\ pc \in {"query", "urlopen"} => start < max_results_per_keyword

\* C4, witness: the upstream reported 5000, four full pages were fetched
\* and the loop has ended at the ceiling.
C4_Witness ==
    /\ pc = "finish"
    /\ start = max_results_per_keyword
    /\ total_results = max_results_per_keyword
    /\ total_processed = max_results_per_keyword
    /\ keywords[keyword_id].processed_results = max_results_per_keyword

\* C5: after a page shorter than batch_size (an empty page included) no
\* further page is requested in the attempt, and the short page has been
\* stored and counted when the loop ends.
C5_ShortPageEnds ==
    /\ pc \in {"query", "urlopen"} =>
          \A k \in 1..Len(log) : log[k].n >= batch_size
    /\ (pc = "finish" /\ log # <<>> /\ Last(log).n < batch_size) =>
          /\ batches = Len(log)
          /\ nreq = Len(log)
          /\ keywords[keyword_id].processed_results = total_processed

\* C5, witness: an empty page ended the loop after a full page although
\* the reported total is larger than the number of records fetched.
C5_Witness ==
    /\ pc = "finish"
    /\ Len(log) = 2
    /\ Last(log).n = 0
    /\ total_results > total_processed
    /\ ~shutdown_requested

FullThenShort(l) ==
    /\ l # <<>>
    /\ \A k \in 1..(Len(l) - 1) : l[k].n = batch_size
    /\ Last(l).n < batch_size

RECURSIVE SumOfPages(_)
SumOfPages(l) == IF l = <<>> THEN 0 ELSE Head(l).n + SumOfPages(Tail(l))

\* the last attempt of the run is over
AttemptOver == pc = "for" /\ started # <<>> /\ keyword_id = Last(started)

\* C6: an attempt whose pages are k full pages and then one short page,
\* without cancellation and without error, issues k+1 requests, stores k+1
\* batches and ends completed with processed_results the sum of the page
\* sizes.
C6_FullPagesThenShort ==
    (AttemptOver /\ FullThenShort(log) /\ ~shutdown_requested
       /\ error = NULL) =>
        /\ nreq = Len(log)
        /\ batches = Len(log)
        /\ keywords[keyword_id].status = "completed"
        /\ keywords[keyword_id].processed_results = SumOfPages(log)

\* C6, witness: the pages 500, 500, 120 ended completed with 1120.
C6_Witness ==
    /\ AttemptOver
    /\ ~shutdown_requested
    /\ [k \in 1..Len(log) |-> log[k].n] = <<500, 500, 120>>
    /\ keywords[keyword_id].status = "completed"
    /\ keywords[keyword_id].processed_results = 1120

\* what C7 states of a process whose flag was first set at one of the
\* positions pcs, after the current keyword had stored a full page: no
\* further page is requested, no later keyword is started, and the keyword
\* ends interrupted with the processed count of that moment
CancelledAfterFullPage(pcs) ==
    (sig.full /\ sig.pc \in pcs) =>
        /\ keyword_id = sig.keyword_id
        /\ Last(started) = sig.keyword_id
        /\ nreq = sig.nreq
        /\ pc \in {"for", "off"} =>
              /\ keywords[sig.keyword_id].status = "interrupted"
              /\ keywords[sig.keyword_id].processed_results = sig.processed

\* C7 as stated: the flag is set after the keyword committed a full page
\* and before its next page request is sent, which includes the moment
\* between the check of the flag (line 262) and the request (line 266).
C7_Original ==
    CancelledAfterFullPage({"progress", "advance", "while", "query"})

\* C7, amended: if the flag is set after the keyword committed a full page
\* and before the loop checks the flag for the next page (line 262), the
\* keyword ends interrupted with processed_results the records committed
\* so far, no further page is requested for it, and run() leaves its loop
\* without marking a later keyword processing.
C7_CancelBeforeCheckpoint ==
    CancelledAfterFullPage({"progress", "advance", "while"})

\* C7, witness: the flag was set after one full page of 500, before the
\* check; the run has ended with the keyword interrupted at 500 and a later
\* keyword of the startup list not started.
C7_Witness ==
    /\ sig.full
    /\ sig.pc = "while"
    /\ sig.processed = batch_size
    /\ pc = "off"
    /\ keywords[sig.keyword_id].status = "interrupted"
    /\ keywords[sig.keyword_id].processed_results = batch_size
    /\ idx <= Len(pending_keywords)

\* the last attempt of the run has ended by a failed page request
AttemptFailed == AttemptOver /\ error # NULL

\* a failed attempt is recorded and does not end the run
FailureRecorded ==
    AttemptFailed =>
        /\ keywords[keyword_id].status = "failed"
        /\ keywords[keyword_id].error_message = error
        /\ keywords[keyword_id].error_message # NULL
        /\ keywords[keyword_id].completed_at = CURRENT_TIMESTAMP
        /\ pending_keywords[idx - 1] = keyword_id
        /\ exit_code = -1

\* main() returns 1 only when load_keywords raised
NoEscape == exit_code = 1 => keywords_file = MISSING

\* the step of run() after a failed attempt starts the next keyword of the
\* startup list
NextIsStarted ==
    pc' = "process_keyword" /\ keyword_id' = pending_keywords[idx]

\* C8 as stated: after a failed page request run() goes on to process the
\* next keyword of its startup list.
C8_Original ==
    [][(AttemptFailed /\ idx <= Len(pending_keywords) /\ pc' # pc)
          => NextIsStarted]_vars

\* C8, amended: when a page request raises, the keyword ends failed with
\* its error message and completion timestamp recorded, the exception does
\* not escape run(), and run() goes on to the next keyword of its startup
\* list, which it processes unless the cancellation flag is set.
C8_FailureDoesNotAbort ==
    /\ [](FailureRecorded /\ NoEscape)
    /\ [][(AttemptFailed /\ idx <= Len(pending_keywords) /\ pc' # pc
             /\ ~shutdown_requested) => NextIsStarted]_vars

\* C8, witness: the first keyword of the startup list failed and the second
\* one is being processed.
C8_Witness ==
    /\ Len(started) = 2
    /\ keywords[started[1]].status = "failed"
    /\ keywords[started[1]].error_message \in Errors
    /\ keywords[started[2]].status = "processing"
    /\ pc = "urlopen"

\* C9 as stated, for one later run: when a run that found an interrupted
\* keyword at startup (an earlier run was stopped by cancellation) has gone
\* through its startup list without cancellation and without a failed
\* request, every keyword is completed.
C9_ResumedCrawlCompletes ==
    (/\ pc = "off"
     /\ exit_code = 0
     /\ ~shutdown_requested
     /\ \E i \in 1..Len(startup) : startup[i].status = "interrupted"
     /\ \A i \in 1..Len(keywords) : keywords[i].status # "failed") =>
        \A i \in 1..Len(keywords) : keywords[i].status = "completed"

\* C10 as stated: on a first run (no database before), in either mode,
\* load_keywords is called, every stripped non-empty line of the file is a
\* keyword that was pending at startup, and a run that goes through its
\* list without cancellation has started every one of them.
C10_FirstRunLoadsInput ==
    (first_run /\ pc \notin {"init", "run"}) =>
        /\ keywords_file # NotRead
        /\ \A k \in 1..Len(ReadKeywords(keywords_file)) :
              \E i \in 1..Len(startup) :
                 /\ startup[i].keyword = ReadKeywords(keywords_file)[k]
                 /\ startup[i].status = "pending"
                 /\ (pc = "off" /\ exit_code = 0 /\ ~shutdown_requested) =>
                       i \in Range(started)

\* C11 as stated: no two page requests of a run follow each other without
\* a sleep between them, the last request of one keyword and the first of
\* the next included.
C11_DelayBetweenRequests == unslept <= 1

\* C12 as stated: when a page of an attempt has been requested, the loop
\* has slept exactly once between each pair of consecutive requests of
\* the attempt, whatever totals the upstream reported.
C12_OneDelayPerPagePair == pc = "urlopen" => slept = nreq - 1

Statuses == {"pending", "processing", "completed", "failed", "interrupted"}

StatusChanges ==
    {<<"pending", "processing">>, <<"failed", "processing">>,
     <<"processing", "completed">>, <<"processing", "interrupted">>,
     <<"processing", "failed">>}

\* C13: a keyword is created pending, its status is always one of the five
\* statuses, and a step changes a status only along pending -> processing,
\* failed -> processing, processing -> completed, processing -> interrupted
\* or processing -> failed; in particular completed is never left.
C13_StatusMachine ==
    /\ [](\A i \in 1..Len(keywords) : keywords[i].status \in Statuses)
    /\ [][/\ Len(keywords') >= Len(keywords)
          /\ \A i \in 1..Len(keywords') :
                IF i > Len(keywords)
                THEN keywords'[i].status = "pending"
                ELSE \/ keywords'[i].status = keywords[i].status
                     \/ <<keywords[i].status, keywords'[i].status>>
                           \in StatusChanges]_vars

\* C13, witness: a keyword that had failed in an earlier run is processing
\* again, beside a keyword completed earlier.
C13_Witness ==
    /\ pc = "while"
    /\ startup[keyword_id].status = "failed"
    /\ keywords[keyword_id].status = "processing"
    /\ \E i \in 1..Len(keywords) : keywords[i].status = "completed"

\* the pagination of the last attempt ended naturally: by a page shorter
\* than the page size or by the offset reaching the ceiling
NaturalEnd ==
    /\ AttemptOver
    /\ error = NULL
    /\ log # <<>>
    /\ Last(log).n < batch_size \/ start >= max_results_per_keyword

\* C14 as stated: a keyword whose pagination ended naturally is completed,
\* also when the flag was set while its last page was fetched or stored.
C14_NaturalEndCompletes ==
    NaturalEnd => keywords[keyword_id].status = "completed"

\* the counters of a row
Counters(row) == <<row.total_results, row.processed_results>>

\* C15: the updates that end an attempt as failed or interrupted leave
\* total_results and processed_results as they are, so that after a failure
\* or a cancellation the row holds the counters written after the last page
\* committed in the attempt (the counters it had at startup if the attempt
\* committed no page).
C15_CountersKept ==
    /\ [][(pc \in {"finish", "except"} /\ pc' = "for") =>
             Counters(keywords'[keyword_id]) = Counters(keywords[keyword_id])
         ]_vars
    /\ []((AttemptOver
           /\ keywords[keyword_id].status \in {"failed", "interrupted"}) =>
             IF batches > 0
             THEN Counters(keywords[keyword_id])
                     = <<total_results, SumOfPages(log)>>
             ELSE Counters(keywords[keyword_id])
                     = Counters(startup[keyword_id]))

\* C15, witness: an attempt failed at its second request, after a full
\* page of 500 had been committed.
C15_Witness ==
    /\ AttemptOver
    /\ keywords[keyword_id].status = "failed"
    /\ nreq = 2
    /\ keywords[keyword_id].processed_results = batch_size

\* C16 as stated: in either mode and for every content of the store, a run
\* whose input file is missing marks no keyword processing, issues no page
\* request and ends with exit code 1.
C16_MissingInputIsFatal ==
    file_missing =>
        /\ started = <<>>
        /\ requested = {}
        /\ pc = "off" => exit_code = 1

\* C17 as stated: after a connect or a commit has raised in a run, the run
\* marks no further keyword processing, issues no further page request,
\* and ends with a non-zero exit code.
C17_StoreFailureIsFatal ==
    [][(store_failed /\ pc # "off") =>
          /\ started' = started
          /\ upstream_requests' = upstream_requests
          /\ pc' = "off" => exit_code' # 0]_vars

\* the paper id is in the papers table
Stored(id) == \E r \in papers : r.arxiv_id = id

\* the link of paper id to keyword kid is in the link table
Linked(id, kid) == BagIn(<<id, kid>>, paper_keywords)

\* the attempt is at (or ended with) the page on which a statement raised,
\* and no connect or commit of the run has raised
AtErrorPage ==
    /\ record_error # NoRecordError
    /\ ~store_failed
    /\ keyword_id = record_error.kid
    /\ batches = record_error.batch
    /\ nreq = batches

\* C18: when a statement of store_papers raises for one record of a page,
\* the other records of the page are stored and linked and the page is
\* committed and counted; the error is not raised to process_keyword, the
\* keyword does not become failed by it, and (the store being reachable)
\* the pagination ends only by a short page, the ceiling or the flag.
C18_RecordErrorDoesNotAbort ==
    /\ record_error # NoRecordError =>
          \A id \in record_error.rest :
             Stored(id) /\ Linked(id, record_error.kid)
    /\ (AtErrorPage /\ pc = "progress") =>
          /\ error = NULL
          /\ keywords[keyword_id].status = "processing"
          /\ n_papers = record_error.n
          /\ total_processed = SumOfPages(log)
    /\ (AtErrorPage /\ AttemptOver) =>
          /\ keywords[keyword_id].status \in {"completed", "interrupted"}
          /\ keywords[keyword_id].processed_results = SumOfPages(log)
          /\ \/ record_error.n < batch_size
             \/ start >= max_results_per_keyword
             \/ shutdown_requested

\* C18, witness: the insert of the first record of a full first page raised,
\* the other records of the page are stored, and the next page has been
\* requested.
C18_Witness ==
    /\ record_error.stmt = "insert"
    /\ record_error.n = batch_size
    /\ record_error.batch = 1
    /\ ~Stored(record_error.id)
    /\ record_error.rest # {}
    /\ keyword_id = record_error.kid
    /\ nreq = 2
    /\ pc = "urlopen"

\* C19 as stated, in the form every store satisfies if a record and its
\* link are committed together: every record of the papers table has a
\* link to some keyword, and every link of the link table has its record.
C19_RecordIffLink ==
    /\ \A r \in papers :
          \E kid \in 1..Len(keywords) : Linked(r.arxiv_id, kid)
    /\ \A l \in BagToSet(paper_keywords) : Stored(l[1])

\* C20 as stated: once the handlers are installed, no step of a process
\* takes shutdown_requested from true back to false.
C20_FlagMonotone ==
    [][(shutdown_requested /\ pc # "off") => shutdown_requested']_vars

\* the ids with status processing
Processing == {i \in 1..Len(keywords) : keywords[i].status = "processing"}

\* the keywords marked processing in this run are the first ones of the
\* startup list, in its order, which is the order of their ids, and all but
\* the last of them have left processing
Sequential ==
    /\ Len(started) <= Len(pending_keywords)
    /\ \A j \in 1..Len(started) : started[j] = pending_keywords[j]
    /\ \A j \in 1..Len(started) :
          \A k \in 1..Len(started) : j < k => started[j] < started[k]
    /\ \A j \in 1..Len(started) :
          j < Len(started) => started[j] \notin Processing

Texts(tbl) == {tbl[i].keyword : i \in 1..Len(tbl)}

C23_CancelStopsNextCheckpoint ==
    shutdown_requested =>
       /\ upstream_requests <= sig.sent + 1
       /\ upstream_requests = sig.sent + 1 => sig.pc = "query"
       /\ Len(started) <= sig.started + 1
       /\ Len(started) = sig.started + 1 => sig.pc = "process_keyword"
       /\ (/\ sig.pc \in {"query", "urlopen"}
           /\ pc \notin {"query", "urlopen", "progress", "except"}
           /\ error = NULL) =>
              /\ log # <<>>
              /\ batches = nreq
              /\ total_processed = sig.processed + Last(log).n
              /\ keywords[keyword_id].processed_results = total_processed
              /\ Last(log).n > 0 =>
                    \E r \in papers : Linked(r.arxiv_id, keyword_id)

\* the flag is set after the checkpoint of the second page has been passed:
\* the second request is sent, its full page is counted, and the run ends
C23_Witness ==
    /\ shutdown_requested
    /\ sig.pc = "query"
    /\ sig.nreq = 1
    /\ pc = "off"
    /\ upstream_requests = sig.sent + 1
    /\ keywords[keyword_id].status = "interrupted"
    /\ keywords[keyword_id].processed_results = batch_size + batch_size

\* the characters of a version number
Digits == {"1", "2"}

RECURSIVE RStripDigits(_)
RStripDigits(s) ==
    IF s # <<>> /\ s[Len(s)] \in Digits
    THEN RStripDigits(SubSeq(s, 1, Len(s) - 1))
    ELSE s

\* an upstream identifier without its version suffix v<digits>
WithoutVersion(s) ==
    LET t == RStripDigits(s)
    IN  IF t # s /\ t # <<>> /\ t[Len(t)] = "v"
        THEN SubSeq(t, 1, Len(t) - 1)
        ELSE s

\* C24 as stated: whenever a page is about to be parsed and stored, two of
\* its entries get the same arxiv_id if and only if their entry.id are equal
\* once the version suffix is removed, and two entries that differ elsewhere
\* in entry.id have two distinct records in the papers table afterwards.
C24_IdIsUpstreamIdLessVersion ==
    pc = "urlopen" =>
       \A f \in Feeds :
          LET st == store_papers(ParsePapers(f), keyword_id, papers,
                                 paper_keywords)
          IN  \A i, j \in 1..Len(f.pat) :
                 LET a == f.pat[i]
                     b == f.pat[j]
                 IN  /\ (ArxivIdOf(a) = ArxivIdOf(b))
                           <=> (WithoutVersion(a) = WithoutVersion(b))
                     /\ WithoutVersion(a) # WithoutVersion(b) =>
                           \E r, q \in st.papers :
                              /\ r # q
                              /\ r.arxiv_id = ArxivIdOf(a)
                              /\ q.arxiv_id = ArxivIdOf(b)

\* ceil(max_results_per_keyword / batch_size)
MaxPages == (max_results_per_keyword + batch_size - 1) \div batch_size

\* C25: a request is sent only from an offset below the ceiling that is at
\* least batch_size times the number of requests already sent in the
\* attempt, so that an attempt sends at most MaxPages requests; an iteration
\* that does not end the loop advances the offset by at least batch_size;
\* and the keywords attempted in a run are distinct keywords of its startup
\* list.
C25_AttemptBounded ==
    /\ [](pc = "query" =>
            /\ nreq * batch_size <= start
            /\ start < max_results_per_keyword
            /\ nreq < MaxPages)
    /\ [](nreq <= MaxPages)
    /\ [][(pc = "advance" /\ pc' = "while") =>
             start' >= start + batch_size]_vars
    /\ [](/\ Len(started) <= Len(pending_keywords)
          /\ \A j, k \in 1..Len(started) :
                j # k => started[j] # started[k])

\* an attempt of four full pages has reached the ceiling
C25_Witness ==
    /\ pc = "finish"
    /\ nreq = MaxPages
    /\ nreq = 4
    /\ start = max_results_per_keyword
    /\ ~shutdown_requested

\* run() has returned to main()
RunReturned == pc = "off" /\ exit_code = 0

\* C26 as stated: when run() has returned, no keyword has status processing.
C26_Original == RunReturned => Processing = {}

\* C26, amended: when run() has returned, every keyword started in the run
\* is completed, failed or interrupted, and a keyword with status processing
\* had that status when the run read its list (an earlier process was killed
\* while it processed the keyword).
C26_StartedAreTerminal ==
    RunReturned =>
       /\ \A j \in 1..Len(started) :
             keywords[started[j]].status
                \in {"completed", "failed", "interrupted"}
       /\ \A i \in Processing :
             /\ i \in 1..Len(startup)
             /\ startup[i].status = "processing"
             /\ i \notin Range(started)

\* a run returns after completing its keyword, beside a keyword that a
\* killed process left processing
C26_Witness ==
    /\ RunReturned
    /\ Len(started) = 1
    /\ keywords[started[1]].status = "completed"
    /\ Processing # {}

\* the current attempt retries a keyword that had failed before this run
Retried ==
    /\ started # <<>>
    /\ keyword_id = Last(started)
    /\ startup[keyword_id].status = "failed"

\* C27: the first request of a retry is sent from offset 0; the progress
\* written after the first page of the retry is the size of that page,
\* whatever the counter was; no step removes or changes a record or a link;
\* and the papers table has one record per arxiv_id and the link table one
\* link per pair.
C27_RetryRestartsAtZero ==
    /\ []((Retried /\ pc \in {"query", "urlopen"} /\ nreq <= 1
            /\ log = <<>>) => start = 0)
    /\ []((Retried /\ log # <<>>) => log[1].start = 0)
    /\ []((Retried /\ Len(log) = 1 /\ pc \in {"advance", "finish"}) =>
            keywords[keyword_id].processed_results = log[1].n)
    /\ [][/\ papers \subseteq papers'
          /\ \A l \in BagToSet(paper_keywords) : BagIn(l, paper_keywords')]_vars
    /\ [](/\ \A r, q \in papers : r.arxiv_id = q.arxiv_id => r = q
          /\ \A l \in BagToSet(paper_keywords) :
                CopiesIn(l, paper_keywords) = 1)

\* a keyword that failed after a full page is retried; its first page is a
\* short page of the same paper, the counter has gone down from 500 to 120,
\* and the record and the link of the first attempt are still there, once
C27_Witness ==
    /\ Retried
    /\ pc = "finish"
    /\ Len(log) = 1
    /\ startup[keyword_id].processed_results = batch_size
    /\ keywords[keyword_id].processed_results = 120
    /\ Cardinality(papers) = 1
    /\ \A r \in papers : CopiesIn(<<r.arxiv_id, keyword_id>>,
                                    paper_keywords) = 1

\* C28: a step changes the error_message of a keyword only by taking it from
\* processing to failed, and then to a message; a new keyword has none; and
\* a retried keyword that has left processing as completed or interrupted
\* still has the message it had when the run started.
C28_ErrorMessageKept ==
    /\ [][\A i \in 1..Len(keywords') :
            IF i <= Len(keywords)
            THEN keywords'[i].error_message # keywords[i].error_message =>
                    /\ keywords[i].status = "processing"
                    /\ keywords'[i].status = "failed"
                    /\ keywords'[i].error_message \in Errors
            ELSE keywords'[i].error_message = NULL]_vars
    /\ []((Retried /\ keywords[keyword_id].status
                         \in {"completed", "interrupted"}) =>
            /\ startup[keyword_id].error_message \in Errors
            /\ keywords[keyword_id].error_message
                  = startup[keyword_id].error_message)

\* a keyword that failed in an earlier run has been retried and is
\* completed, with the message of the failure
C28_Witness ==
    /\ Retried
    /\ pc = "for"
    /\ keywords[keyword_id].status = "completed"
    /\ keywords[keyword_id].error_message \in Errors

\* the keywords that had status processing when the run read its list
Stale == {i \in 1..Len(startup) : startup[i].status = "processing"}

\* C29: a keyword that has status processing when a run reads its list is
\* not in the list of the run, is not marked or requested by the run and
\* keeps its status; and a step takes a keyword out of processing only if
\* the keyword is the one the running process marked last.
C29_StaleNeverSelected ==
    /\ [](\A i \in Stale :
             /\ i \notin Range(pending_keywords)
             /\ i \notin Range(started)
             /\ i \notin requested
             /\ pc \notin {"off", "init", "run", "for"} => keyword_id # i
             /\ keywords[i].status = "processing")
    /\ [][\A i \in 1..Len(keywords) :
            (keywords[i].status = "processing"
               /\ keywords'[i].status # "processing") =>
                  /\ pc \in {"finish", "except"}
                  /\ started # <<>>
                  /\ i = Last(started)]_vars

\* the second process has sent a request for its keyword while the keyword
\* of the first process, which was killed after a request, is still
\* processing with the progress of its only page
C29_Witness ==
    /\ runNo = 2
    /\ Stale # {}
    /\ requested # {}
    /\ pc = "off"
    /\ \A i \in Stale : /\ keywords[i].status = "processing"
                         /\ keywords[i].processed_results = batch_size

\* the topics at distance at most k from the starting topic
RECURSIVE Within(_)
Within(k) ==
    IF k = 0
    THEN {starting_topic}
    ELSE LET w == Within(k - 1)
         IN  w \cup UNION {Range(graph[t]) : t \in w}

\* the shortest distance of a reachable topic from the starting topic
Distance(t) == SetMin({k \in 0..Cardinality(Topics) : t \in Within(k)})

RECURSIVE SumStats(_)
SumStats(d) == IF d < 0 THEN 0 ELSE depth_stats[d] + SumStats(d - 1)

\* what the function returns is the breadth-first result
ReturnedIsExact ==
    explore_pc = "returned" =>
       /\ all_subtopics = Within(max_depth)
       /\ \A t \in Topics :
             counted[t] = IF t \in Within(max_depth)
                          THEN <<Distance(t)>>
                          ELSE <<>>
       /\ \A d \in 0..MaxDepth :
             depth_stats[d]
                = Cardinality({t \in Within(max_depth) : Distance(t) = d})
       /\ SumStats(MaxDepth) = Cardinality(all_subtopics)

\* C30 as stated: for every graph, starting topic and max_depth the function
\* ends by returning, never by an exception, and then all_subtopics is the
\* set of the topics at distance at most max_depth, each counted once, at
\* its distance, and the counts of depth_statistics sum to their number.
C30_ExploreIsBreadthFirst ==
    /\ explore_pc # "raised"
    /\ ReturnedIsExact

=============================================================================
